---------------------------- MODULE Spec2Model ----------------------------
(***************************************************************************)
(* WinPass-Native: the password generation engine of src/src/password_gen.c *)
(* (GenerateAdvanced, GenerateCore, ShufflePassword) as a state machine.    *)
(*                                                                         *)
(* One generation call is a run of the machine from CallGenerate... to      *)
(* pc = "returned"; every Win32 call that can fail (HeapAlloc,              *)
(* CryptAcquireContext, CryptGenRandom) is a nondeterministic choice, and   *)
(* the values the random source returns are inputs drawn from small sets.  *)
(*                                                                         *)
(* Buffers are sequences: C index k is element k+1.  A character is its     *)
(* 1-based position in CHARSET_FULL (letters 1..52, digits 53..62, symbols  *)
(* 63..84); NUL is 0.  DWORD arithmetic is modelled on a word of DwordBits  *)
(* bits (MAXDWORD = 2^DwordBits - 1) so that all DWORD values can be        *)
(* enumerated.                                                             *)
(***************************************************************************)
EXTENDS Integers, Sequences, FiniteSets, TLC

(***************************************************************************)
(* Program constants                                                       *)
(***************************************************************************)
MIN_PASSWORD_LENGTH == 4

MAX_PASSWORD_LENGTH == 1024

MAX_CATEGORY_LENGTH == 1024

(***************************************************************************)
(* Bounds of the model                                                     *)
(***************************************************************************)
\* width in bits of the modelled DWORD
DwordBits == 4

\* largest per-category count a caller passes
MaxCount == 2

\* largest total length (sum of the enabled counts, or GenerateCore's length)
MaxTotal == 4

\* largest buffer on which the permutation count of the shuffle is enumerated
MaxPermLen == 4

MAXDWORD == 2^DwordBits - 1

DWORD == 0..MAXDWORD

BYTE == 0..255

NUL == 0

(***************************************************************************)
(* Character sets (common.h declarations; sizes as documented there)       *)
(***************************************************************************)
CHARSET_LETTERS == [k \in 1..52 |-> k]

CHARSET_NUMBERS == [k \in 1..10 |-> 52 + k]

CHARSET_SYMBOLS == [k \in 1..22 |-> 62 + k]

CHARSET_FULL == CHARSET_LETTERS \o CHARSET_NUMBERS \o CHARSET_SYMBOLS

CHARSET_ALPHANUM == CHARSET_LETTERS \o CHARSET_NUMBERS

\* lstrlenA of a character set
lstrlenA(s) == Len(s)

MapByteSkipsLast(charset, b) == charset[(b % (lstrlenA(charset) - 1)) + 1]

\* charset[b % len]
MapByte(charset, b) == charset[(b % lstrlenA(charset)) + 1]

(***************************************************************************)
(* State                                                                   *)
(***************************************************************************)
VARIABLES
    pc,              \* control location of the current call
    mode,            \* "none" | "advanced" | "core": which entry point runs
    letterCount, numberCount, symbolCount,   \* GenerateAdvanced arguments
    useLetters, useNumbers, useSymbols,      \* (useSymbols also GenerateCore's)
    length,          \* GenerateCore argument
    totalLength,     \* GenerateAdvanced local; in core mode the length
    heap,            \* live heap blocks: subset of {"pbBuffer","passwordString"}
    pbBuffer,        \* random bytes (<<>> when not allocated)
    passwordString,  \* password characters plus terminator slot
    hCryptProv,      \* 1 while the crypto context is held, else 0
    i,               \* ShufflePassword loop index
    errors,          \* error messages written to the console by this call
    results,         \* RESULT lines written to the console by this call
    clipboard,       \* strings this call placed on the clipboard
    nAlloc, nFree,   \* HeapAlloc successes / HeapFree calls of this call
    nAcquire, nRelease,   \* CryptAcquireContext successes / CryptReleaseContext calls
    nFill,           \* successful byte fills (CryptGenRandom of totalLength bytes)
    nWide,           \* accepted wide draws (= swaps performed)
    lastDraw,        \* outcome of the latest wide draw: "none", "accepted", "rejected", "failed"
    fillFailed,      \* the byte fill failed
    wideFailed,      \* a wide draw of the shuffle failed
    oob,             \* an index outside a buffer was read or written
    assembled,       \* passwordString as it was when the shuffle started
    targets,         \* swap targets j chosen so far by the shuffle
    readIdx,         \* for each character written in assembly, the C index read in pbBuffer
    pos,             \* write position of the assembly phase
    probe,           \* state of the stand-alone rejection-sampling probe
    proc             \* main: its argument list, control location, configuration, calls made

vars == <<pc, mode, letterCount, numberCount, symbolCount, useLetters, useNumbers,
          useSymbols, length, totalLength, heap, pbBuffer, passwordString,
          hCryptProv, i, errors, results, clipboard, nAlloc, nFree, nAcquire,
          nRelease, nFill, nWide, lastDraw, fillFailed, wideFailed, oob,
          assembled, targets, readIdx, pos, probe, proc>>

argVars == <<mode, letterCount, numberCount, symbolCount, useLetters, useNumbers,
             useSymbols, length, totalLength>>

bufVars == <<heap, pbBuffer, passwordString>>

outVars == <<errors, results, clipboard>>

shuffleVars == <<i, nWide, lastDraw, wideFailed, targets>>

ghostVars == <<assembled, readIdx, pos, oob>>

\* main is not running
NoProc == [at |-> "none"]

NoProbe == [range |-> 0, threshold |-> 0, r |-> 0, drawn |-> FALSE, accepted |-> FALSE, j |-> 0]


(***************************************************************************)
(* Inputs: what callers pass and what the environment returns               *)
(***************************************************************************)
\* category counts a caller passes (ParseArguments and the menu keep them >= 0)
Counts == 0..MaxCount

\* category counts of a direct call of the GenerateAdvanced API (any int)
ApiCounts == (-1)..(MaxCount + 1)

\* first byte of the patterns CryptGenRandom fills a buffer with
ByteSeeds == {0, 200}

\* the byte buffers CryptGenRandom may return for n bytes
Fills(n) == {[k \in 1..n |-> (seed + (k - 1) * 37) % 256] : seed \in ByteSeeds}

\* what a read outside pbBuffer may find in the heap
StrayBytes == {0, 255}

Min(S) == CHOOSE x \in S : \A y \in S : x <= y

\* the C string held in buffer s: the characters before the first NUL
CString(s) ==
    LET z == {k \in 1..Len(s) : s[k] = NUL}
    IN  IF z = {} THEN s ELSE SubSeq(s, 1, Min(z) - 1)

StaleBlock(n) == [k \in 1..n |-> 255]

\* HeapAlloc(hHeap, HEAP_ZERO_MEMORY, n)
ZeroBlock(n) == [k \in 1..n |-> 0]

(***************************************************************************)
(* GenerateAdvanced / GenerateCore: validation                              *)
(***************************************************************************)
NoCategoryEnabledTypo(ul, un, us) == ~ul /\ ~un /\ us

\* if (!useLetters && !useNumbers && !useSymbols)
NoCategoryEnabled(ul, un, us) == ~ul /\ ~un /\ ~us

TotalLengthIgnoresSymbolFlag(lc, nc, sc, ul, un, us) ==
    (IF ul THEN lc ELSE 0) + (IF un THEN nc ELSE 0) + sc

\* totalLength: the sum of the counts of the enabled categories
TotalLength(lc, nc, sc, ul, un, us) ==
    (IF ul THEN lc ELSE 0) + (IF un THEN nc ELSE 0) + (IF us THEN sc ELSE 0)

TooShortOffByOne(n) == n <= MIN_PASSWORD_LENGTH

\* if (totalLength < MIN_PASSWORD_LENGTH)
TooShort(n) == n < MIN_PASSWORD_LENGTH

\* the length of both buffers of the running call
BufLen == IF mode = "core" THEN length ELSE totalLength

\* the locals of a call as they are on entry, and the counts kept per call
ResetLocals ==
    /\ heap' = {}
    /\ pbBuffer' = <<>>
    /\ passwordString' = <<>>
    /\ hCryptProv' = 0
    /\ i' = 0
    /\ results' = <<>>
    /\ clipboard' = <<>>
    /\ nAlloc' = 0
    /\ nFree' = 0
    /\ nAcquire' = 0
    /\ nRelease' = 0
    /\ nFill' = 0
    /\ nWide' = 0
    /\ lastDraw' = "none"
    /\ fillFailed' = FALSE
    /\ wideFailed' = FALSE
    /\ oob' = FALSE
    /\ assembled' = <<>>
    /\ targets' = <<>>
    /\ readIdx' = <<>>
    /\ pos' = 0

\* what every call starts from: locals initialised, nothing written yet
ResetCall ==
    /\ ResetLocals
    /\ UNCHANGED <<probe, proc>>

\* GenerateAdvanced entered with these arguments: both validations
CallGenerateAdvanced(lc, nc, sc, ul, un, us) ==
    /\ pc = "idle"
    /\ mode' = "advanced"
    /\ letterCount' = lc
    /\ numberCount' = nc
    /\ symbolCount' = sc
    /\ useLetters' = ul
    /\ useNumbers' = un
    /\ useSymbols' = us
    /\ length' = 0
    /\ ResetCall
    /\ IF NoCategoryEnabled(ul, un, us)
       THEN /\ errors' = <<[err |-> "NoCategoryEnabled", arg |-> 0]>>
            /\ totalLength' = 0
            /\ pc' = "returned"
       ELSE /\ totalLength' = TotalLength(lc, nc, sc, ul, un, us)
            /\ IF TooShort(totalLength')
               THEN /\ errors' = <<[err |-> "TooShort", arg |-> MIN_PASSWORD_LENGTH]>>
                    /\ pc' = "returned"
               ELSE /\ errors' = <<>>
                    /\ pc' = "alloc_rand"

\* GenerateCore entered with these arguments: the length validation
CallGenerateCore(len, us) ==
    /\ pc = "idle"
    /\ mode' = "core"
    /\ letterCount' = 0
    /\ numberCount' = 0
    /\ symbolCount' = 0
    /\ useLetters' = FALSE
    /\ useNumbers' = FALSE
    /\ useSymbols' = us
    /\ length' = len
    /\ totalLength' = 0
    /\ ResetCall
    /\ IF TooShort(len)
       THEN /\ errors' = <<[err |-> "TooShort", arg |-> MIN_PASSWORD_LENGTH]>>
            /\ pc' = "returned"
       ELSE /\ errors' = <<>>
            /\ pc' = "alloc_rand"

\* a call made by main or the menu: counts in range, total within the model's bound
GenerateAdvancedCalled ==
    \E lc \in Counts, nc \in Counts, sc \in Counts, ul \in BOOLEAN, un \in BOOLEAN, us \in BOOLEAN :
        /\ TotalLength(lc, nc, sc, ul, un, us) <= MaxTotal
        /\ CallGenerateAdvanced(lc, nc, sc, ul, un, us)

\* a direct call of the API: counts are any int, here also a negative one
GenerateAdvancedCalledDirectly ==
    \E lc \in ApiCounts, nc \in ApiCounts, sc \in ApiCounts, ul \in BOOLEAN, un \in BOOLEAN, us \in BOOLEAN :
        /\ TotalLength(lc, nc, sc, ul, un, us) <= MaxTotal
        /\ CallGenerateAdvanced(lc, nc, sc, ul, un, us)

GenerateCoreCalled ==
    \E len \in 1..MaxTotal, us \in BOOLEAN : CallGenerateCore(len, us)

(***************************************************************************)
(* Buffers and the cryptographic context                                    *)
(***************************************************************************)
\* pbBuffer = HeapAlloc(hHeap, HEAP_ZERO_MEMORY, totalLength); NULL ends the call
AllocRandomBuffer ==
    /\ pc = "alloc_rand"
    /\ \E ok \in BOOLEAN :
        IF ok
        THEN /\ pbBuffer' = ZeroBlock(BufLen)
             /\ heap' = heap \cup {"pbBuffer"}
             /\ nAlloc' = nAlloc + 1
             /\ pc' = "alloc_pwd"
             /\ UNCHANGED errors
        ELSE /\ errors' = Append(errors, [err |-> "Memory Error", arg |-> 0])
             /\ pc' = "returned"
             /\ UNCHANGED <<pbBuffer, heap, nAlloc>>
    /\ UNCHANGED <<argVars, passwordString, hCryptProv, results, clipboard, nFree,
                   nAcquire, nRelease, nFill, fillFailed, shuffleVars, ghostVars, probe, proc>>

\* passwordString = HeapAlloc(..., totalLength + 1); NULL frees pbBuffer and ends the call
AllocPasswordString ==
    /\ pc = "alloc_pwd"
    /\ \E ok \in BOOLEAN :
        IF ok
        THEN /\ passwordString' = ZeroBlock(BufLen + 1)
             /\ heap' = heap \cup {"passwordString"}
             /\ nAlloc' = nAlloc + 1
             /\ pc' = "acquire"
             /\ UNCHANGED <<errors, pbBuffer, nFree>>
        ELSE /\ heap' = heap \ {"pbBuffer"}
             /\ pbBuffer' = <<>>
             /\ nFree' = nFree + 1
             /\ errors' = Append(errors, [err |-> "Memory Error", arg |-> 0])
             /\ pc' = "returned"
             /\ UNCHANGED <<passwordString, nAlloc>>
    /\ UNCHANGED <<argVars, hCryptProv, results, clipboard, nAcquire, nRelease, nFill,
                   fillFailed, shuffleVars, ghostVars, probe, proc>>

AfterAcquireFailureFallsThrough == "fill"

AfterAcquireFailureReturns == "returned"

\* where control goes when CryptAcquireContext fails: the outer else branch, then the frees
AfterAcquireFailure == "free"

\* if (CryptAcquireContext(&hCryptProv, ...)) ... else PrintError("Crypto Context Failed")
AcquireContext ==
    /\ pc = "acquire"
    /\ \E ok \in BOOLEAN :
        IF ok
        THEN /\ hCryptProv' = 1
             /\ nAcquire' = nAcquire + 1
             /\ pc' = "fill"
             /\ UNCHANGED errors
        ELSE /\ errors' = Append(errors, [err |-> "Crypto Context Failed", arg |-> 0])
             /\ pc' = AfterAcquireFailure
             /\ UNCHANGED <<hCryptProv, nAcquire>>
    /\ UNCHANGED <<argVars, bufVars, results, clipboard, nAlloc, nFree, nRelease, nFill,
                   fillFailed, shuffleVars, ghostVars, probe, proc>>

AfterFillFailureSkipsRelease == "free"

\* where control goes when the byte fill fails: the else branch, then CryptReleaseContext
AfterFillFailure == "release"

\* if (CryptGenRandom(hCryptProv, totalLength, pbBuffer)) ... else PrintError("GenRandom Failed")
FillRandom ==
    /\ pc = "fill"
    /\ \/ /\ \E bytes \in Fills(BufLen) : pbBuffer' = bytes
          /\ nFill' = nFill + 1
          /\ pc' = IF mode = "core" THEN "map" ELSE "assemble"
          /\ UNCHANGED <<errors, fillFailed>>
       \/ /\ errors' = Append(errors, [err |-> "GenRandom Failed", arg |-> 0])
          /\ fillFailed' = TRUE
          /\ pc' = AfterFillFailure
          /\ UNCHANGED <<pbBuffer, nFill>>
    /\ UNCHANGED <<argVars, heap, passwordString, hCryptProv, results, clipboard, nAlloc,
                   nFree, nAcquire, nRelease, shuffleVars, ghostVars, probe, proc>>

\* CryptReleaseContext(hCryptProv, 0)
ReleaseContext ==
    /\ pc = "release"
    /\ hCryptProv' = 0
    /\ nRelease' = nRelease + 1
    /\ pc' = "free"
    /\ UNCHANGED <<argVars, bufVars, outVars, nAlloc, nFree, nAcquire, nFill, fillFailed,
                   shuffleVars, ghostVars, probe, proc>>

\* HeapFree(hHeap, 0, pbBuffer); HeapFree(hHeap, 0, passwordString); return
FreeBuffers ==
    /\ pc = "free"
    /\ heap' = heap \ {"pbBuffer", "passwordString"}
    /\ pbBuffer' = <<>>
    /\ passwordString' = <<>>
    /\ nFree' = nFree + 2
    /\ pc' = "returned"
    /\ UNCHANGED <<argVars, hCryptProv, outVars, nAlloc, nAcquire, nRelease, nFill,
                   fillFailed, shuffleVars, ghostVars, probe, proc>>

(***************************************************************************)
(* GenerateAdvanced, phase 1: assembly                                      *)
(***************************************************************************)
\* the C indices 0..n-1 shifted by offset, in loop order
IndexRun(offset, n) == [k \in 1..n |-> offset + k - 1]

\* letters read pbBuffer[i], i = 0..letterCount-1
LetterReads(lc, ul) == IF ul /\ lc > 0 THEN IndexRun(0, lc) ELSE <<>>

NumberOffsetIgnoresFlag(lc, ul) == lc

\* int offset = useLetters ? letterCount : 0;
NumberOffset(lc, ul) == IF ul THEN lc ELSE 0

\* numbers read pbBuffer[offset + i]
NumberReads(lc, nc, ul, un) ==
    IF un /\ nc > 0 THEN IndexRun(NumberOffset(lc, ul), nc) ELSE <<>>

\* offset = 0; if (useLetters) offset += letterCount; if (useNumbers) offset += numberCount;
SymbolOffset(lc, nc, ul, un) == (IF ul THEN lc ELSE 0) + (IF un THEN nc ELSE 0)

\* symbols read pbBuffer[offset + i]
SymbolReads(lc, nc, sc, ul, un, us) ==
    IF us /\ sc > 0 THEN IndexRun(SymbolOffset(lc, nc, ul, un), sc) ELSE <<>>

SegmentCharsetSymbolsSecond(k, nl, nn) ==
    IF k <= nl THEN CHARSET_LETTERS
    ELSE IF k <= nl + nn THEN CHARSET_SYMBOLS
    ELSE CHARSET_NUMBERS

\* the character set of the k-th character written (1-based), by segment
SegmentCharset(k, nl, nn) ==
    IF k <= nl THEN CHARSET_LETTERS
    ELSE IF k <= nl + nn THEN CHARSET_NUMBERS
    ELSE CHARSET_SYMBOLS

ShuffleSkipped(len) == "output"

\* ShufflePassword entered: for (int i = length - 1; i > 0; i--) runs its body, or
\* the function returns at once
ShuffleEntry(len) == IF len - 1 > 0 THEN "shuffle" ELSE "output"

\* the three segment loops, passwordString[totalLength] = '\0', and the call of
\* ShufflePassword (its loop variable set to length - 1)
Assemble ==
    /\ pc = "assemble"
    /\ LET lr == LetterReads(letterCount, useLetters)
           nr == NumberReads(letterCount, numberCount, useLetters, useNumbers)
           sr == SymbolReads(letterCount, numberCount, symbolCount, useLetters, useNumbers, useSymbols)
           reads == lr \o nr \o sr
           outside == {reads[k] : k \in 1..Len(reads)} \ (0..(Len(pbBuffer) - 1))
           size == Len(passwordString)
       IN  \E stray \in [outside -> StrayBytes] :
             LET byteAt(c) == IF c \in outside THEN stray[c] ELSE pbBuffer[c + 1]
                 written == [k \in 1..Len(reads) |->
                                MapByte(SegmentCharset(k, Len(lr), Len(nr)), byteAt(reads[k]))]
                 filled == [k \in 1..size |->
                                IF k <= Len(written) THEN written[k] ELSE passwordString[k]]
             IN  /\ passwordString' = [filled EXCEPT ![totalLength + 1] = NUL]
                 /\ readIdx' = reads
                 /\ pos' = Len(reads)
                 /\ oob' = (outside # {} \/ Len(reads) > size)
                 /\ assembled' = passwordString'
    /\ i' = totalLength - 1
    /\ pc' = ShuffleEntry(totalLength)
    /\ UNCHANGED <<argVars, heap, pbBuffer, hCryptProv, outVars, nAlloc, nFree, nAcquire,
                   nRelease, nFill, fillFailed, nWide, lastDraw, wideFailed, targets, probe, proc>>

(***************************************************************************)
(* ShufflePassword                                                         *)
(***************************************************************************)
ThresholdWithoutRemainder(dwRange) == MAXDWORD

\* dwThreshold = MAXDWORD - (MAXDWORD % dwRange);
Threshold(dwRange) == MAXDWORD - (MAXDWORD % dwRange)

RejectedAboveThresholdOnly(dwRandomValue, dwThreshold) == dwRandomValue > dwThreshold

RejectedAlways(dwRandomValue, dwThreshold) == TRUE

\* } while (dwRandomValue >= dwThreshold);
Rejected(dwRandomValue, dwThreshold) == dwRandomValue >= dwThreshold

SwapTargetBelowIndex(dwRandomValue, dwRange) == dwRandomValue % (dwRange - 1)

SwapTargetPastIndex(dwRandomValue, dwRange) == dwRandomValue % (dwRange + 1)

\* int j = (int)(dwRandomValue % dwRange);
SwapTarget(dwRandomValue, dwRange) == dwRandomValue % dwRange

\* temp = password[i]; password[i] = password[j]; password[j] = temp;
Swap(password, a, b) ==
    [password EXCEPT ![a + 1] = password[b + 1], ![b + 1] = password[a + 1]]

\* where the caller continues when ShufflePassword returns
AfterShuffle == "output"

AfterWideFailureDrawsAgain == "shuffle"

\* if (!CryptGenRandom(...)) return; control is back in the caller of ShufflePassword
AfterWideFailure == "output"

\* CryptGenRandom of one DWORD fails: return from ShufflePassword
ShuffleDrawFails ==
    /\ pc = "shuffle"
    /\ wideFailed' = TRUE
    /\ lastDraw' = "failed"
    /\ pc' = AfterWideFailure
    /\ UNCHANGED <<argVars, bufVars, hCryptProv, outVars, nAlloc, nFree, nAcquire, nRelease,
                   nFill, fillFailed, i, nWide, targets, ghostVars, probe, proc>>

\* the DWORD drawn is >= dwThreshold: the do-while loop draws again
ShuffleDrawRejected ==
    /\ pc = "shuffle"
    /\ \E dwRandomValue \in DWORD : Rejected(dwRandomValue, Threshold(i + 1))
    /\ lastDraw' = "rejected"
    /\ UNCHANGED <<pc, argVars, bufVars, hCryptProv, outVars, nAlloc, nFree, nAcquire,
                   nRelease, nFill, fillFailed, i, nWide, wideFailed, targets, ghostVars, probe, proc>>

\* the DWORD drawn is below dwThreshold: swap password[i], password[j]; i--
ShuffleDrawAccepted ==
    /\ pc = "shuffle"
    /\ \E dwRandomValue \in DWORD :
        /\ ~Rejected(dwRandomValue, Threshold(i + 1))
        /\ LET j == SwapTarget(dwRandomValue, i + 1)
           IN  /\ passwordString' = Swap(passwordString, i, j)
               /\ targets' = Append(targets, j)
    /\ nWide' = nWide + 1
    /\ lastDraw' = "accepted"
    /\ i' = i - 1
    /\ pc' = IF i - 1 > 0 THEN "shuffle" ELSE AfterShuffle
    /\ UNCHANGED <<argVars, heap, pbBuffer, hCryptProv, outVars, nAlloc, nFree, nAcquire,
                   nRelease, nFill, fillFailed, wideFailed, ghostVars, probe, proc>>

(***************************************************************************)
(* Output                                                                  *)
(***************************************************************************)
\* CopyToClipboard(text, length): length characters, unless the clipboard cannot be had
CopyToClipboard(text, n) ==
    \E ok \in BOOLEAN :
        clipboard' = IF ok THEN Append(clipboard, SubSeq(text, 1, n)) ELSE clipboard

ShownIgnoresFlag(use, count) == count

\* useLetters ? letterCount : 0 (likewise numbers, symbols): the count shown in the result line
Shown(use, count) == IF use THEN count ELSE 0

\* wsprintfA(">> RESULT (%d chars: L=%d N=%d S=%d): %s"); ConsoleWrite; CopyToClipboard
EmitResultAdvanced ==
    /\ pc = "output"
    /\ mode = "advanced"
    /\ results' = Append(results, [total |-> totalLength,
                                   L |-> Shown(useLetters, letterCount),
                                   N |-> Shown(useNumbers, numberCount),
                                   S |-> Shown(useSymbols, symbolCount),
                                   password |-> CString(passwordString)])
    /\ CopyToClipboard(passwordString, totalLength)
    /\ pc' = "release"
    /\ UNCHANGED <<argVars, bufVars, hCryptProv, errors, nAlloc, nFree, nAcquire, nRelease,
                   nFill, fillFailed, shuffleVars, ghostVars, probe, proc>>

CoreCharsetAlwaysFull(us) == CHARSET_FULL

\* const char* currentCharset = useSymbols ? CHARSET_FULL : CHARSET_ALPHANUM;
CoreCharset(us) == IF us THEN CHARSET_FULL ELSE CHARSET_ALPHANUM

\* GenerateCore: passwordString[i] = currentCharset[pbBuffer[i] % charsetLen]; terminator
MapCore ==
    /\ pc = "map"
    /\ LET currentCharset == CoreCharset(useSymbols)
       IN  passwordString' = [k \in 1..(length + 1) |->
                                 IF k <= length THEN MapByte(currentCharset, pbBuffer[k]) ELSE NUL]
    /\ pc' = "output"
    /\ UNCHANGED <<argVars, heap, pbBuffer, hCryptProv, outVars, nAlloc, nFree, nAcquire,
                   nRelease, nFill, fillFailed, shuffleVars, ghostVars, probe, proc>>

\* GenerateCore: wsprintfA(">> RESULT (%d chars): %s"); ConsoleWrite; CopyToClipboard
EmitResultCore ==
    /\ pc = "output"
    /\ mode = "core"
    /\ results' = Append(results, [total |-> length, L |-> 0, N |-> 0, S |-> 0,
                                   password |-> CString(passwordString)])
    /\ CopyToClipboard(passwordString, length)
    /\ pc' = "release"
    /\ UNCHANGED <<argVars, bufVars, hCryptProv, errors, nAlloc, nFree, nAcquire, nRelease,
                   nFill, fillFailed, shuffleVars, ghostVars, probe, proc>>

(***************************************************************************)
(* Specifications                                                          *)
(***************************************************************************)
Init ==
    /\ pc = "idle"
    /\ mode = "none"
    /\ letterCount = 0
    /\ numberCount = 0
    /\ symbolCount = 0
    /\ useLetters = FALSE
    /\ useNumbers = FALSE
    /\ useSymbols = FALSE
    /\ length = 0
    /\ totalLength = 0
    /\ heap = {}
    /\ pbBuffer = <<>>
    /\ passwordString = <<>>
    /\ hCryptProv = 0
    /\ i = 0
    /\ errors = <<>>
    /\ results = <<>>
    /\ clipboard = <<>>
    /\ nAlloc = 0
    /\ nFree = 0
    /\ nAcquire = 0
    /\ nRelease = 0
    /\ nFill = 0
    /\ nWide = 0
    /\ lastDraw = "none"
    /\ fillFailed = FALSE
    /\ wideFailed = FALSE
    /\ oob = FALSE
    /\ assembled = <<>>
    /\ targets = <<>>
    /\ readIdx = <<>>
    /\ pos = 0
    /\ probe = NoProbe
    /\ proc = NoProc

\* the frame of the call that returned is gone
FramePopped ==
    /\ pc = "returned"
    /\ pc' = "idle"
    /\ mode' = "none"
    /\ letterCount' = 0
    /\ numberCount' = 0
    /\ symbolCount' = 0
    /\ useLetters' = FALSE
    /\ useNumbers' = FALSE
    /\ useSymbols' = FALSE
    /\ length' = 0
    /\ totalLength' = 0
    /\ errors' = <<>>
    /\ ResetLocals

\* the call has returned: its frame is gone and the caller may call again
ReturnToCaller ==
    /\ FramePopped
    /\ UNCHANGED <<probe, proc>>

\* the steps of a running call before its buffers are freed
BodyStep ==
    \/ AllocRandomBuffer
    \/ AllocPasswordString
    \/ AcquireContext
    \/ FillRandom
    \/ Assemble
    \/ ShuffleDrawFails
    \/ ShuffleDrawRejected
    \/ ShuffleDrawAccepted
    \/ EmitResultAdvanced
    \/ MapCore
    \/ EmitResultCore
    \/ ReleaseContext

\* the steps of a running call
Step ==
    \/ BodyStep
    \/ FreeBuffers
    \/ ReturnToCaller

Next ==
    \/ GenerateAdvancedCalled
    \/ GenerateCoreCalled
    \/ Step

Spec == Init /\ [][Next]_vars

NextApi ==
    \/ GenerateAdvancedCalledDirectly
    \/ GenerateCoreCalled
    \/ Step

\* the entry points called directly, GenerateAdvanced with any counts
SpecApi == Init /\ [][NextApi]_vars

(***************************************************************************)
(* The rejection-sampling step of ShufflePassword on its own: one range,    *)
(* draws until a value is accepted                                          *)
(***************************************************************************)
ProbeInit ==
    /\ pc = "probe"
    /\ mode = "none"
    /\ letterCount = 0
    /\ numberCount = 0
    /\ symbolCount = 0
    /\ useLetters = FALSE
    /\ useNumbers = FALSE
    /\ useSymbols = FALSE
    /\ length = 0
    /\ totalLength = 0
    /\ heap = {}
    /\ pbBuffer = <<>>
    /\ passwordString = <<>>
    /\ hCryptProv = 1
    /\ i = 0
    /\ errors = <<>>
    /\ results = <<>>
    /\ clipboard = <<>>
    /\ nAlloc = 0
    /\ nFree = 0
    /\ nAcquire = 0
    /\ nRelease = 0
    /\ nFill = 0
    /\ nWide = 0
    /\ lastDraw = "none"
    /\ fillFailed = FALSE
    /\ wideFailed = FALSE
    /\ oob = FALSE
    /\ assembled = <<>>
    /\ targets = <<>>
    /\ readIdx = <<>>
    /\ pos = 0
    /\ proc = NoProc
    /\ \E dwRange \in 1..MAXDWORD :
        probe = [range |-> dwRange, threshold |-> Threshold(dwRange), r |-> 0,
                 drawn |-> FALSE, accepted |-> FALSE, j |-> 0]

\* one pass of the do-while body: a DWORD is drawn and compared with dwThreshold
ProbeDraw ==
    /\ pc = "probe"
    /\ ~probe.accepted
    /\ \E dwRandomValue \in DWORD :
        probe' = [probe EXCEPT !.r = dwRandomValue,
                               !.drawn = TRUE,
                               !.accepted = ~Rejected(dwRandomValue, probe.threshold),
                               !.j = IF Rejected(dwRandomValue, probe.threshold)
                                     THEN 0
                                     ELSE SwapTarget(dwRandomValue, probe.range)]
    /\ UNCHANGED <<pc, argVars, bufVars, hCryptProv, outVars, nAlloc, nFree, nAcquire,
                   nRelease, nFill, fillFailed, shuffleVars, ghostVars, proc>>

NextRejection == ProbeDraw

\* the rejection loop for every range 1..MAXDWORD
SpecRejection == ProbeInit /\ [][NextRejection]_vars

(***************************************************************************)
(* ShufflePassword as a function of the swap targets                        *)
(***************************************************************************)
RECURSIVE ShuffleFrom(_, _, _)
\* the loop from index a down to 1, the k-th step (1-based) using target js[k]
ShuffleFrom(password, a, js) ==
    IF a <= 0 \/ js = <<>> THEN password
    ELSE ShuffleFrom(Swap(password, a, Head(js)), a - 1, Tail(js))

\* all complete target sequences for a buffer of n characters: j in 0..i for i = n-1 .. 1
RECURSIVE TargetSeqs(_)
TargetSeqs(a) ==
    IF a <= 0 THEN {<<>>}
    ELSE {<<j>> \o rest : j \in 0..a, rest \in TargetSeqs(a - 1)}

\* all orderings of the first n characters of buffer s (the terminator stays)
Orderings(s, n) ==
    {[k \in 1..Len(s) |-> IF k <= n THEN s[p[k]] ELSE s[k]] : p \in Permutations(1..n)}

\* the n first characters of s are pairwise distinct
Distinct(s, n) == \A a, b \in 1..n : a # b => s[a] # s[b]

(***************************************************************************)
(* Properties                                                              *)
(***************************************************************************)
\* the sum of the counts of the enabled categories of the running call
EnabledSum ==
    (IF useLetters THEN letterCount ELSE 0)
    + (IF useNumbers THEN numberCount ELSE 0)
    + (IF useSymbols THEN symbolCount ELSE 0)

HasError(name) == \E k \in 1..Len(errors) : errors[k].err = name

\* C1: when a wide draw of the shuffle has failed, the call writes no RESULT line
\* and copies nothing to the clipboard.
C1_ShuffleFailureEmitsNothing ==
    wideFailed => (results = <<>> /\ clipboard = <<>>)

\* C2: for every range 1..MAXDWORD the threshold is <= MAXDWORD and a multiple of
\* the range, and a value the rejection loop accepted is below the threshold.
C2_RejectionThreshold ==
    pc = "probe" =>
        /\ probe.threshold = MAXDWORD - (MAXDWORD % probe.range)
        /\ probe.threshold <= MAXDWORD
        /\ probe.threshold % probe.range = 0
        /\ (probe.accepted => probe.r < probe.threshold)
        /\ (probe.drawn /\ ~probe.accepted => probe.r >= probe.threshold)

C2_Witness ==
    /\ pc = "probe"
    /\ probe.accepted
    /\ MAXDWORD % probe.range # 0
    /\ probe.r = probe.threshold - 1

\* C3: in a shuffle step at index i (range i + 1) every swap target 0..i is the
\* image of exactly threshold / range of the values the rejection loop accepts.
C3_AcceptedValuesEvenlySpread ==
    pc = "shuffle" =>
        LET dwRange == i + 1
            accepted == {r \in DWORD : ~Rejected(r, Threshold(dwRange))}
        IN  \A j \in 0..i :
              Cardinality({r \in accepted : SwapTarget(r, dwRange) = j})
                  = (MAXDWORD - (MAXDWORD % dwRange)) \div dwRange

C3_Witness ==
    /\ pc = "shuffle"
    /\ lastDraw = "accepted"
    /\ MAXDWORD % (i + 1) # 0

\* C4: on a buffer of n distinct characters (n <= MaxPermLen) every swap target
\* 0..i can be chosen at every step, the shuffle's result is the one the chosen
\* targets determine, no other target sequence gives that result, and the target
\* sequences together give all n! orderings.
C4_ShufflePermutations ==
    (mode = "advanced" /\ assembled # <<>> /\ ~wideFailed /\ totalLength <= MaxPermLen
        /\ Distinct(assembled, totalLength)) =>
        /\ pc = "shuffle" =>
              \A j \in 0..i : ENABLED (ShuffleDrawAccepted /\ targets' = Append(targets, j))
        /\ pc \in {"shuffle", "output"} =>
              passwordString = ShuffleFrom(assembled, totalLength - 1, targets)
        /\ pc = "output" =>
              /\ Len(targets) = totalLength - 1
              /\ \A js \in TargetSeqs(totalLength - 1) :
                    ShuffleFrom(assembled, totalLength - 1, js) = passwordString => js = targets
              /\ {ShuffleFrom(assembled, totalLength - 1, js) : js \in TargetSeqs(totalLength - 1)}
                    = Orderings(assembled, totalLength)

\* a shuffle that ended with the category order of the assembly changed
C4_Witness ==
    /\ mode = "advanced"
    /\ pc = "output"
    /\ ~wideFailed
    /\ totalLength = MIN_PASSWORD_LENGTH
    /\ Distinct(assembled, totalLength)
    /\ passwordString # assembled
    /\ passwordString[1] > 52
    /\ assembled[1] <= 52

\* C5: GenerateAdvanced with the three categories disabled ends with the
\* no-category error, whatever the counts, having allocated nothing, not acquired
\* the random source, drawn nothing and emitted nothing.
C5_NoCategoryFailsFirst ==
    (mode = "advanced" /\ ~useLetters /\ ~useNumbers /\ ~useSymbols) =>
        /\ pc = "returned"
        /\ errors = <<[err |-> "NoCategoryEnabled", arg |-> 0]>>
        /\ nAlloc = 0
        /\ heap = {}
        /\ nAcquire = 0
        /\ hCryptProv = 0
        /\ nFill = 0
        /\ nWide = 0
        /\ lastDraw = "none"
        /\ results = <<>>
        /\ clipboard = <<>>

C5_Witness ==
    /\ mode = "advanced"
    /\ pc = "returned"
    /\ ~useLetters /\ ~useNumbers /\ ~useSymbols
    /\ letterCount + numberCount + symbolCount >= MIN_PASSWORD_LENGTH
    /\ HasError("NoCategoryEnabled")

\* C6: with a category enabled, GenerateAdvanced reports the too-short error
\* (minimum 4) exactly when the enabled sum is below 4, and then acquires and
\* emits nothing; a sum of 4 or more passes, and a call without resource failure
\* returns having written one password.
C6_TooShortBelowMinimum ==
    (mode = "advanced" /\ (useLetters \/ useNumbers \/ useSymbols)) =>
        /\ EnabledSum < 4 =>
              /\ pc = "returned"
              /\ errors = <<[err |-> "TooShort", arg |-> 4]>>
              /\ nAlloc = 0
              /\ nAcquire = 0
              /\ nFill = 0
              /\ results = <<>>
              /\ clipboard = <<>>
        /\ EnabledSum >= 4 =>
              /\ ~HasError("TooShort")
              /\ (pc = "returned" /\ errors = <<>>) =>
                    (Len(results) = 1 /\ Len(results[1].password) = EnabledSum)

C6_Witness ==
    /\ mode = "advanced"
    /\ pc = "returned"
    /\ EnabledSum = 4
    /\ errors = <<>>
    /\ Len(results) = 1

\* C7: a GenerateAdvanced request with an enabled category whose count is negative
\* or >= MAX_CATEGORY_LENGTH is rejected as out of range: generation does not
\* proceed, so no buffer is allocated for it and no password is emitted.
C7_OutOfRangeCountRejected ==
    (mode = "advanced"
        /\ \/ useLetters /\ (letterCount < 0 \/ letterCount >= MAX_CATEGORY_LENGTH)
           \/ useNumbers /\ (numberCount < 0 \/ numberCount >= MAX_CATEGORY_LENGTH)
           \/ useSymbols /\ (symbolCount < 0 \/ symbolCount >= MAX_CATEGORY_LENGTH)) =>
        /\ results = <<>>
        /\ clipboard = <<>>

\* C8: a password GenerateAdvanced emits has exactly as many characters as the
\* counts of the enabled categories add up to; the count of a disabled category
\* adds nothing.
C8_LengthIsEnabledSum ==
    (mode = "advanced" /\ results # <<>>) =>
        /\ Len(results) = 1
        /\ Len(results[1].password) = EnabledSum
        /\ results[1].total = EnabledSum
        /\ \A k \in 1..Len(clipboard) : Len(clipboard[k]) = EnabledSum

C8_Witness ==
    /\ mode = "advanced"
    /\ ~wideFailed
    /\ Len(results) = 1
    /\ Len(clipboard) = 1
    /\ \/ ~useLetters /\ letterCount > 0
       \/ ~useNumbers /\ numberCount > 0
       \/ ~useSymbols /\ symbolCount > 0

\* C9: after assembly (counts >= 0) the segments of letters, digits and symbols
\* start at the running sum of the enabled counts before them, every index
\* 0..totalLength-1 of the random buffer is read by exactly one output position,
\* nothing outside the buffer is read, and the write position is totalLength.
C9_AssemblyOffsets ==
    (mode = "advanced" /\ assembled # <<>>
        /\ letterCount >= 0 /\ numberCount >= 0 /\ symbolCount >= 0) =>
        LET nl == IF useLetters THEN letterCount ELSE 0
            nn == IF useNumbers THEN numberCount ELSE 0
            ns == IF useSymbols THEN symbolCount ELSE 0
        IN  /\ Len(readIdx) = totalLength
            /\ pos = totalLength
            /\ ~oob
            /\ \A k \in 1..Len(readIdx) : readIdx[k] \in 0..(totalLength - 1)
            /\ \A a, b \in 1..Len(readIdx) : a # b => readIdx[a] # readIdx[b]
            /\ \A c \in 0..(totalLength - 1) : \E k \in 1..Len(readIdx) : readIdx[k] = c
            /\ \A k \in 1..nl : readIdx[k] = k - 1
            /\ \A k \in 1..nn : readIdx[nl + k] = nl + (k - 1)
            /\ \A k \in 1..ns : readIdx[nl + nn + k] = nl + nn + (k - 1)

C9_Witness ==
    /\ mode = "advanced"
    /\ assembled # <<>>
    /\ ~useLetters /\ letterCount > 0
    /\ useNumbers /\ numberCount > 0
    /\ useSymbols /\ symbolCount > 0
    /\ pos = totalLength

\* C10: the cryptographic context is never released without having been acquired,
\* is held from its acquisition to its single release, and a call that acquired it
\* (success, byte-fill failure, shuffle failure) has released it exactly once when
\* it returns; a call that did not acquire it releases nothing.
C10_ContextReleasedOnce ==
    /\ nAcquire \in {0, 1}
    /\ nRelease <= nAcquire
    /\ (hCryptProv = 1) = (nAcquire = 1 /\ nRelease = 0)
    /\ pc = "returned" => (nRelease = nAcquire /\ hCryptProv = 0)
    /\ pc \in {"fill", "map", "assemble", "shuffle", "output", "release"} => hCryptProv = 1

C10_Witness ==
    /\ pc = "returned"
    /\ wideFailed
    /\ nAcquire = 1
    /\ nRelease = 1

\* C11: when acquiring the random source failed, or the byte fill failed, the call
\* (GenerateCore or GenerateAdvanced) writes no RESULT line, copies nothing to the
\* clipboard, maps no character into the password buffer (it stays as allocated,
\* all zero), makes no wide draw, and has reported the matching error.
C11_SourceFailureEmitsNothing ==
    (HasError("Crypto Context Failed") \/ fillFailed) =>
        /\ results = <<>>
        /\ clipboard = <<>>
        /\ assembled = <<>>
        /\ readIdx = <<>>
        /\ nFill = 0
        /\ nWide = 0
        /\ lastDraw = "none"
        /\ "passwordString" \in heap => passwordString = ZeroBlock(BufLen + 1)
        /\ pc \in {"release", "free", "returned"}
        /\ fillFailed => (HasError("GenRandom Failed") /\ nAcquire = 1)
        /\ HasError("Crypto Context Failed") => (nAcquire = 0 /\ ~fillFailed)

\* a GenerateCore call that returned after its byte fill failed
C11_Witness ==
    /\ pc = "returned"
    /\ mode = "core"
    /\ fillFailed
    /\ HasError("GenRandom Failed")
    /\ length >= MIN_PASSWORD_LENGTH

\* C12: in a GenerateAdvanced call without draw failure the context is acquired
\* once and held until the release; there is exactly one byte fill, of totalLength
\* bytes, before the assembly; no wide draw is made before the assembly is complete;
\* a wide draw leaves the fill buffer alone and can yield any target whatever that
\* buffer holds; the RESULT line is written only after the last swap
\* (totalLength - 1 swaps) and before the release.
C12_EventOrder ==
    (mode = "advanced" /\ ~wideFailed) =>
        /\ nAcquire <= 1
        /\ nFill <= 1
        /\ nFill = 1 => (nAcquire = 1 /\ ("pbBuffer" \in heap => Len(pbBuffer) = totalLength))
        /\ pc = "fill" => (nFill = 0 /\ assembled = <<>>)
        /\ assembled # <<>> => (nFill = 1 /\ pos = Len(readIdx))
        /\ pc = "assemble" => (nFill = 1 /\ lastDraw = "none" /\ nWide = 0 /\ results = <<>>)
        /\ lastDraw # "none" => assembled # <<>>
        /\ pc \in {"assemble", "shuffle", "output"} =>
              (hCryptProv = 1 /\ nAcquire = 1 /\ nRelease = 0)
        /\ pc = "shuffle" =>
              /\ results = <<>>
              /\ nWide < totalLength - 1
              /\ \A j \in 0..i :
                    ENABLED (ShuffleDrawAccepted /\ targets' = Append(targets, j)
                                /\ pbBuffer' = pbBuffer)
        /\ pc = "output" => (results = <<>> /\ nWide = Len(targets))
        /\ results # <<>> =>
              /\ nWide = totalLength - 1
              /\ i <= 0
              /\ pc \in {"release", "free", "returned"}
        /\ (nRelease = 1 /\ nFill = 1) => results # <<>>

C12_Witness ==
    /\ mode = "advanced"
    /\ pc = "returned"
    /\ ~wideFailed
    /\ results # <<>>
    /\ nFill = 1
    /\ nWide = totalLength - 1
    /\ nWide >= 3
    /\ nRelease = 1

\* C13: GenerateCore with length < 4 emits nothing and allocates nothing; with
\* length >= 4 the password it emits has exactly length characters, character k
\* being the (byte_k mod 84)-th of the 84-character full set when useSymbols, the
\* (byte_k mod 62)-th of the 62-character alphanumeric set otherwise; a call
\* without resource failure emits one password; GenerateCore never shuffles and
\* never makes a wide draw.
C13_CoreMapsBytesDirectly ==
    mode = "core" =>
        /\ Len(CHARSET_FULL) = 84
        /\ Len(CHARSET_ALPHANUM) = 62
        /\ length < 4 =>
              (pc = "returned" /\ results = <<>> /\ clipboard = <<>> /\ nAlloc = 0 /\ nFill = 0)
        /\ nWide = 0
        /\ lastDraw = "none"
        /\ targets = <<>>
        /\ assembled = <<>>
        /\ ~wideFailed
        /\ pc # "shuffle"
        /\ results # <<>> =>
              /\ length >= 4
              /\ Len(results) = 1
              /\ results[1].total = length
              /\ Len(results[1].password) = length
              /\ \A k \in 1..Len(clipboard) : clipboard[k] = results[1].password
              /\ pc = "release" =>
                    \A k \in 1..length :
                        results[1].password[k] =
                            IF useSymbols
                            THEN CHARSET_FULL[(pbBuffer[k] % 84) + 1]
                            ELSE CHARSET_ALPHANUM[(pbBuffer[k] % 62) + 1]
        /\ (pc = "returned" /\ errors = <<>>) => Len(results) = 1

\* an alphanumeric password just written, one of its bytes being 62 or more
C13_Witness ==
    /\ mode = "core"
    /\ pc = "release"
    /\ ~useSymbols
    /\ Len(results) = 1
    /\ Len(clipboard) = 1
    /\ \E k \in 1..length : pbBuffer[k] >= 62 /\ pbBuffer[k] < 84

\* the characters of a character set
Chars(charset) == {charset[k] : k \in 1..Len(charset)}

\* the letters, the digits and the symbols
Letters == Chars(CHARSET_LETTERS)

Numbers == Chars(CHARSET_NUMBERS)

Symbols == Chars(CHARSET_SYMBOLS)

\* how many characters of s belong to the set
CountIn(s, set) == Cardinality({k \in 1..Len(s) : s[k] \in set})

\* C14: letters, digits and symbols are disjoint sets; from the end of the assembly
\* on, through every swap of the shuffle, and in the password emitted, the number
\* of letters is the letter count if letters are enabled and 0 otherwise, likewise
\* for digits and symbols, and there is no other character.
C14_CategoryCountsPreserved ==
    (mode = "advanced" /\ assembled # <<>>) =>
        LET nl == IF useLetters THEN letterCount ELSE 0
            nn == IF useNumbers THEN numberCount ELSE 0
            ns == IF useSymbols THEN symbolCount ELSE 0
            HasCounts(s) ==
                /\ Len(s) = nl + nn + ns
                /\ CountIn(s, Letters) = nl
                /\ CountIn(s, Numbers) = nn
                /\ CountIn(s, Symbols) = ns
        IN  /\ Letters \cap Numbers = {}
            /\ Letters \cap Symbols = {}
            /\ Numbers \cap Symbols = {}
            /\ HasCounts(CString(assembled))
            /\ "passwordString" \in heap => HasCounts(CString(passwordString))
            /\ \A k \in 1..Len(results) : HasCounts(results[k].password)
            /\ \A k \in 1..Len(clipboard) : HasCounts(clipboard[k])

\* a password of the three categories, emitted in another order than assembled
C14_Witness ==
    /\ mode = "advanced"
    /\ pc = "release"
    /\ ~wideFailed
    /\ Len(results) = 1
    /\ useLetters /\ letterCount > 0
    /\ useNumbers /\ numberCount > 0
    /\ useSymbols /\ symbolCount > 0
    /\ numberCount # symbolCount
    /\ results[1].password # CString(assembled)
    /\ results[1].password[1] > 62

(***************************************************************************)
(* The byte-to-character mapping on its own: one character set, the bytes   *)
(* 0..255 mapped one after the other and the characters obtained counted    *)
(***************************************************************************)
\* no generation call is running
NoCall ==
    /\ mode = "none"
    /\ letterCount = 0
    /\ numberCount = 0
    /\ symbolCount = 0
    /\ useLetters = FALSE
    /\ useNumbers = FALSE
    /\ useSymbols = FALSE
    /\ length = 0
    /\ totalLength = 0
    /\ heap = {}
    /\ pbBuffer = <<>>
    /\ passwordString = <<>>
    /\ hCryptProv = 0
    /\ i = 0
    /\ errors = <<>>
    /\ results = <<>>
    /\ clipboard = <<>>
    /\ nAlloc = 0
    /\ nFree = 0
    /\ nAcquire = 0
    /\ nRelease = 0
    /\ nFill = 0
    /\ nWide = 0
    /\ lastDraw = "none"
    /\ fillFailed = FALSE
    /\ wideFailed = FALSE
    /\ oob = FALSE
    /\ assembled = <<>>
    /\ targets = <<>>
    /\ readIdx = <<>>
    /\ pos = 0

callVars == <<argVars, bufVars, hCryptProv, outVars, nAlloc, nFree, nAcquire, nRelease,
              nFill, fillFailed, shuffleVars, ghostVars>>

\* the character sets the program maps bytes through
Charsets == {CHARSET_LETTERS, CHARSET_NUMBERS, CHARSET_SYMBOLS, CHARSET_FULL, CHARSET_ALPHANUM}

MapperInit ==
    /\ pc = "mapper"
    /\ NoCall
    /\ proc = NoProc
    /\ \E charset \in Charsets :
          probe = [charset |-> charset, next |-> 0, hits |-> [c \in Chars(charset) |-> 0]]

\* charset[b % len] for the next byte value b
MapNextByte ==
    /\ pc = "mapper"
    /\ probe.next \in BYTE
    /\ LET c == MapByte(probe.charset, probe.next)
       IN  probe' = [probe EXCEPT !.next = @ + 1, !.hits[c] = @ + 1]
    /\ UNCHANGED <<pc, callVars, proc>>

NextMapper == MapNextByte

SpecMapper == MapperInit /\ [][NextMapper]_vars

\* C15: for each alphabet size k the program uses (10, 22, 52, 62, 84), once the
\* 256 byte values have been mapped by alphabet[byte mod k], every character of
\* the alphabet has been obtained, the first 256 mod k characters from
\* floor(256/k) + 1 byte values and the others from floor(256/k), so that two
\* characters differ by at most one.
C15_MappingCoversAlphabet ==
    pc = "mapper" =>
        LET k == Len(probe.charset)
            hitsAt(c) == probe.hits[probe.charset[c]]
        IN  /\ k \in {10, 22, 52, 62, 84}
            /\ {Len(cs) : cs \in Charsets} = {10, 22, 52, 62, 84}
            /\ Cardinality(Chars(probe.charset)) = k
            /\ probe.next = 256 =>
                  /\ \A c \in 1..k : hitsAt(c) >= 1
                  /\ \A c \in 1..k :
                        hitsAt(c) = (256 \div k) + (IF c <= 256 % k THEN 1 ELSE 0)
                  /\ \A c, d \in 1..k :
                        hitsAt(c) - hitsAt(d) \in {-1, 0, 1}

\* the 84-character set after the 256 bytes: 256 = 3 * 84 + 4
C15_Witness ==
    /\ pc = "mapper"
    /\ probe.next = 256
    /\ Len(probe.charset) = 84
    /\ probe.hits[probe.charset[4]] = 4
    /\ probe.hits[probe.charset[5]] = 3

C17_NoDrawAfterFailure ==
    [][ /\ ((fillFailed \/ wideFailed) /\ pc # "returned") =>
              /\ nFill' = nFill
              /\ nWide' = nWide
              /\ lastDraw' = lastDraw
              /\ targets' = targets
              /\ i' = i
              /\ fillFailed' = fillFailed
              /\ wideFailed' = wideFailed
              /\ pc' \notin {"fill", "map", "assemble", "shuffle"}
              /\ (passwordString' = passwordString \/ pc = "free")
        /\ pc = "shuffle" => (~fillFailed /\ ~wideFailed /\ lastDraw # "failed")
        /\ (pc = "shuffle" /\ pc' = "shuffle" /\ i' = i) =>
              (lastDraw' = "rejected" /\ ~wideFailed' /\ passwordString' = passwordString)
        /\ (pc = "shuffle" /\ lastDraw' = "failed") =>
              (pc' # "shuffle" /\ nWide' = nWide /\ passwordString' = passwordString)
      ]_vars

\* a call that returned after a wide draw failed, swaps having been made before
C17_Witness ==
    /\ pc = "returned"
    /\ mode = "advanced"
    /\ wideFailed
    /\ lastDraw = "failed"
    /\ nWide >= 1
    /\ nWide < totalLength - 1

\* C18: in every RESULT line of GenerateAdvanced, L is the letter count when
\* letters are enabled and 0 when they are not, likewise N for digits and S for
\* symbols, and L + N + S is both the total shown and the length of the password
\* shown.
C18_BreakdownAddsUp ==
    (mode = "advanced") =>
        \A k \in 1..Len(results) :
            /\ results[k].L = (IF useLetters THEN letterCount ELSE 0)
            /\ results[k].N = (IF useNumbers THEN numberCount ELSE 0)
            /\ results[k].S = (IF useSymbols THEN symbolCount ELSE 0)
            /\ results[k].L + results[k].N + results[k].S = results[k].total
            /\ results[k].L + results[k].N + results[k].S = Len(results[k].password)

\* a result line with letters and digits, symbols disabled with a positive count
C18_Witness ==
    /\ mode = "advanced"
    /\ pc = "release"
    /\ Len(results) = 1
    /\ ~useSymbols /\ symbolCount > 0
    /\ results[1].S = 0
    /\ results[1].L > 0
    /\ results[1].N > 0

(***************************************************************************)
(* utils.c: strings are sequences of one-character strings                  *)
(***************************************************************************)
MAX_INT_PARSE_VALUE == 100000

DEFAULT_BATCH_LENGTH == 16

\* the characters '0' .. '9' in order
Digits == <<"0", "1", "2", "3", "4", "5", "6", "7", "8", "9">>

\* (*str >= '0') && (*str <= '9')
IsDigit(c) == \E d \in 1..10 : Digits[d] = c

\* *str - '0'
DigitValue(c) == (CHOOSE d \in 1..10 : Digits[d] = c) - 1

ExceedsCapNever(res) == FALSE

\* if (res > MAX_INT_PARSE_VALUE) after the digit was added
ExceedsCap(res) == res > MAX_INT_PARSE_VALUE

RECURSIVE StrToIntLoop(_, _)
\* the while loop of SimpleStrToInt / SimpleWStrToInt, res being the accumulator
StrToIntLoop(str, res) ==
    IF str = <<>> \/ ~IsDigit(Head(str)) THEN res
    ELSE IF res > MAX_INT_PARSE_VALUE \div 10 THEN MAX_INT_PARSE_VALUE
    ELSE LET next == (res * 10) + DigitValue(Head(str))
         IN  IF ExceedsCap(next) THEN MAX_INT_PARSE_VALUE
             ELSE StrToIntLoop(Tail(str), next)

SimpleStrToInt(str) == StrToIntLoop(str, 0)

SimpleWStrToInt(str) == StrToIntLoop(str, 0)

\* every character of str equals that of wstr, and wstr ends where str ends
WStrEquals(wstr, str) ==
    /\ \A k \in 1..Len(str) : k <= Len(wstr) /\ wstr[k] = str[k]
    /\ Len(wstr) = Len(str)

\* every character of prefix equals that of wstr; the rest of wstr is not looked at
WStrStartsWith(wstr, prefix) ==
    \A k \in 1..Len(prefix) : k <= Len(wstr) /\ wstr[k] = prefix[k]

\* the number after the first '=', or -1 when there is no '='
ExtractValueFromArg(arg) ==
    LET eq == {k \in 1..Len(arg) : arg[k] = "="}
    IN  IF eq = {} THEN -1
        ELSE SimpleWStrToInt(SubSeq(arg, Min(eq) + 1, Len(arg)))

\* IsNumericInput: not empty and digits only
IsNumericInput(str) ==
    /\ str # <<>>
    /\ \A k \in 1..Len(str) : IsDigit(str[k])

RECURSIVE Decimal(_)
\* the decimal text of n >= 0, as typed on a command line or at a prompt
Decimal(n) ==
    IF n < 10 THEN <<Digits[n + 1]>>
    ELSE Decimal(n \div 10) \o <<Digits[(n % 10) + 1]>>

(***************************************************************************)
(* main, ParseArguments and RunInteractiveMode.  proc.args is the argument  *)
(* list after the program name (szArglist[i] is proc.args[i], nArgs is      *)
(* Len(proc.args) + 1); proc.ok is FALSE when CommandLineToArgvW returned   *)
(* NULL, and main then has no argument list.  A generation call is the      *)
(* location "call" with the call's arguments in proc.call; the call itself  *)
(* is the machine of Spec.  proc.input is the line last read at the menu    *)
(* prompt and proc.typed the line last read at a length prompt.             *)
(***************************************************************************)
\* largest number of command-line arguments
MaxArgs == 2

StrHelp == <<"-", "-", "h", "e", "l", "p">>

StrH == <<"-", "h">>

StrSlashQ == <<"/", "?">>

StrDashQ == <<"-", "?">>

StrNoLetters == <<"-", "-", "n", "o", "-", "l", "e", "t", "t", "e", "r", "s">>

StrNoNumbers == <<"-", "-", "n", "o", "-", "n", "u", "m", "b", "e", "r", "s">>

StrNoSymbols == <<"-", "-", "n", "o", "-", "s", "y", "m", "b", "o", "l", "s">>

StrLetters == <<"-", "-", "l", "e", "t", "t", "e", "r", "s", "=">>

StrL == <<"-", "l", "=">>

StrNumbers == <<"-", "-", "n", "u", "m", "b", "e", "r", "s", "=">>

StrN == <<"-", "n", "=">>

StrSymbols == <<"-", "-", "s", "y", "m", "b", "o", "l", "s", "=">>

StrS == <<"-", "s", "=">>

\* the arguments a command line is made of
ArgTexts ==
    {StrHelp, StrH, StrSlashQ, StrDashQ, StrNoLetters, StrNoNumbers, StrNoSymbols,
     StrLetters \o Decimal(5), StrL \o Decimal(1023), StrLetters \o Decimal(1024),
     StrNumbers \o Decimal(0), StrN \o Decimal(12),
     StrSymbols \o Decimal(7), StrS \o Decimal(2000),
     StrLetters \o <<"a", "b", "c">>, StrNumbers,
     Decimal(20), Decimal(2000), <<"a", "b", "c">>, <<"-", "-", "f", "o", "o">>}

\* the command lines: up to MaxArgs arguments
CommandLines == UNION {[1..n -> ArgTexts] : n \in 0..MaxArgs}

\* what is typed at the menu prompt (after ConsoleRead stripped the line end)
ChoiceInputs ==
    {Decimal(n) : n \in 0..9} \cup {<<>>, <<"a", "b", "c">>, Decimal(12), <<"2", "x">>}

\* what is typed at a length prompt
LengthInputs == {<<>>, Decimal(3), Decimal(1024), <<"a", "b", "c">>, <<"3", "x">>}

NoConfig ==
    [useLetters |-> FALSE, useNumbers |-> FALSE, useSymbols |-> FALSE,
     letterLength |-> 0, numberLength |-> 0, symbolLength |-> 0]

\* the defaults of ParseArguments and of RunInteractiveMode
DefaultConfig ==
    [useLetters |-> TRUE, useNumbers |-> TRUE, useSymbols |-> TRUE,
     letterLength |-> 8, numberLength |-> 4, symbolLength |-> 4]

NoGenCall == [fn |-> "none"]

\* GenerateAdvanced(config.letterLength, ..., config.useSymbols)
AdvancedCall(config) == [fn |-> "GenerateAdvanced", config |-> config]

\* GenerateCore(length, useSymbols)
CoreCall(len, us) == [fn |-> "GenerateCore", length |-> len, useSymbols |-> us]

\* main entered with this argument list
ProcStart(ok, args) ==
    [at |-> "start", ok |-> ok, args |-> args, i |-> 0, config |-> NoConfig,
     modes |-> {}, generated |-> {}, helpShown |-> FALSE, call |-> NoGenCall,
     said |-> "", exit |-> -1, input |-> <<>>, typed |-> <<>>]

MainInit ==
    /\ pc = "main"
    /\ NoCall
    /\ probe = NoProbe
    /\ \/ \E args \in CommandLines : proc = ProcStart(TRUE, args)
       \/ proc = ProcStart(FALSE, <<>>)

genVars == <<pc, callVars, probe>>

\* WStrEquals(arg, "--help") || "-h" || "/?" || "-?"
IsHelpFlag(arg) ==
    \/ WStrEquals(arg, StrHelp)
    \/ WStrEquals(arg, StrH)
    \/ WStrEquals(arg, StrSlashQ)
    \/ WStrEquals(arg, StrDashQ)

HelpOnlyFirstArgument(ok, args) ==
    ok /\ Len(args) + 1 > 1 /\ IsHelpFlag(args[1])

\* the help scan: szArglist != NULL, nArgs > 1 and some argument is a help flag
HelpRequested(ok, args) ==
    ok /\ Len(args) + 1 > 1 /\ \E k \in 1..Len(args) : IsHelpFlag(args[k])

\* nArgs == 2 && szArglist[1][0] != L'-'
IsLegacyBatch(args) ==
    /\ Len(args) + 1 = 2
    /\ (args[1] = <<>> \/ args[1][1] # "-")

\* ShowHelp(); LocalFree; return 0
ShowHelpAndExit ==
    /\ proc.at = "start"
    /\ HelpRequested(proc.ok, proc.args)
    /\ proc' = [proc EXCEPT !.at = "exit", !.helpShown = TRUE, !.modes = @ \cup {"help"},
                            !.said = "help", !.exit = 0]
    /\ UNCHANGED genVars

\* MODE 1: batchLength = SimpleWStrToInt(szArglist[1]), default when <= 0; GenerateCore
LegacyBatch ==
    /\ proc.at = "start"
    /\ ~HelpRequested(proc.ok, proc.args)
    /\ proc.ok /\ Len(proc.args) + 1 > 1
    /\ IsLegacyBatch(proc.args)
    /\ LET parsed == SimpleWStrToInt(proc.args[1])
           batchLength == IF parsed <= 0 THEN DEFAULT_BATCH_LENGTH ELSE parsed
       IN  proc' = [proc EXCEPT !.at = "call", !.modes = @ \cup {"batch"},
                                !.generated = @ \cup {"batch"},
                                !.call = CoreCall(batchLength, TRUE),
                                !.said = "Batch Mode"]
    /\ UNCHANGED genVars

\* MODE 2: ParseArguments entered, the configuration set to the defaults, i = 1
EnterCli ==
    /\ proc.at = "start"
    /\ ~HelpRequested(proc.ok, proc.args)
    /\ proc.ok /\ Len(proc.args) + 1 > 1
    /\ ~IsLegacyBatch(proc.args)
    /\ proc' = [proc EXCEPT !.at = "parse", !.modes = @ \cup {"cli"},
                            !.config = DefaultConfig, !.i = 1]
    /\ UNCHANGED genVars

\* MODE 3: RunInteractiveMode entered, its settings at their defaults
EnterInteractive ==
    /\ proc.at = "start"
    /\ ~HelpRequested(proc.ok, proc.args)
    /\ ~(proc.ok /\ Len(proc.args) + 1 > 1)
    /\ proc' = [proc EXCEPT !.at = "menu", !.modes = @ \cup {"interactive"},
                            !.config = DefaultConfig]
    /\ UNCHANGED genVars

(***************************************************************************)
(* ParseArguments                                                          *)
(***************************************************************************)
StoreLengthZeroWhenOutOfRange(config, field, val) ==
    [config EXCEPT ![field] = IF val >= 0 /\ val < MAX_CATEGORY_LENGTH THEN val ELSE 0]

\* if (val >= 0 && val < MAX_CATEGORY_LENGTH) config->field = val;
StoreLength(config, field, val) ==
    IF val >= 0 /\ val < MAX_CATEGORY_LENGTH THEN [config EXCEPT ![field] = val] ELSE config

\* the value branch of a length flag: -2 is the error, any other value is stored if in range
LengthFlag(config, field, name, arg) ==
    LET val == ExtractValueFromArg(arg)
    IN  IF val = -2
        THEN [config |-> config, ret |-> FALSE, said |-> "Invalid value for " \o name]
        ELSE [config |-> StoreLength(config, field, val), ret |-> TRUE, said |-> ""]

UnknownFlagIgnored(arg) == FALSE

\* !recognized && arg[0] == L'-' (recognized being FALSE where this is evaluated)
UnknownFlag(arg) == arg # <<>> /\ arg[1] = "-"

\* the body of the for loop for one argument: the configuration after it, whether
\* the loop goes on (ret) and the error written
ParseOne(config, arg) ==
    IF WStrEquals(arg, StrNoLetters)
    THEN [config |-> [config EXCEPT !.useLetters = FALSE], ret |-> TRUE, said |-> ""]
    ELSE IF WStrEquals(arg, StrNoNumbers)
    THEN [config |-> [config EXCEPT !.useNumbers = FALSE], ret |-> TRUE, said |-> ""]
    ELSE IF WStrEquals(arg, StrNoSymbols)
    THEN [config |-> [config EXCEPT !.useSymbols = FALSE], ret |-> TRUE, said |-> ""]
    ELSE IF WStrStartsWith(arg, StrLetters) \/ WStrStartsWith(arg, StrL)
    THEN LengthFlag(config, "letterLength", "--letters", arg)
    ELSE IF WStrStartsWith(arg, StrNumbers) \/ WStrStartsWith(arg, StrN)
    THEN LengthFlag(config, "numberLength", "--numbers", arg)
    ELSE IF WStrStartsWith(arg, StrSymbols) \/ WStrStartsWith(arg, StrS)
    THEN LengthFlag(config, "symbolLength", "--symbols", arg)
    ELSE IF UnknownFlag(arg)
    THEN [config |-> config, ret |-> FALSE, said |-> "Unknown flag"]
    ELSE [config |-> config, ret |-> TRUE, said |-> ""]

\* one pass of the for loop; a FALSE return makes main free the list and return 1
ParseArgument ==
    /\ proc.at = "parse"
    /\ proc.i < Len(proc.args) + 1
    /\ LET r == ParseOne(proc.config, proc.args[proc.i])
       IN  IF r.ret
           THEN proc' = [proc EXCEPT !.config = r.config, !.i = @ + 1]
           ELSE proc' = [proc EXCEPT !.config = r.config, !.said = r.said,
                                     !.at = "exit", !.exit = 1]
    /\ UNCHANGED genVars

\* the loop is over: return TRUE; main calls GenerateAdvanced with the configuration
ParseReturnsTrue ==
    /\ proc.at = "parse"
    /\ proc.i = Len(proc.args) + 1
    /\ proc' = [proc EXCEPT !.at = "call", !.generated = @ \cup {"cli"},
                            !.call = AdvancedCall(proc.config),
                            !.said = "Advanced CLI Mode"]
    /\ UNCHANGED genVars

\* the generation call returns: to the menu loop, or to the end of main (return 0)
GenerationReturns ==
    /\ proc.at = "call"
    /\ IF "interactive" \in proc.modes
       THEN proc' = [proc EXCEPT !.at = "menu", !.call = NoGenCall, !.said = ""]
       ELSE proc' = [proc EXCEPT !.at = "exit", !.call = NoGenCall, !.exit = 0]
    /\ UNCHANGED genVars

(***************************************************************************)
(* RunInteractiveMode: one pass of the menu loop per action                 *)
(***************************************************************************)
\* choice = SimpleStrToInt(inputBuf), read only when readLen > 0
Choice(input) == SimpleStrToInt(input)

\* readLen == 0: the menu is shown again; choice < 1 || choice > 8: error, continue
MenuIgnored ==
    /\ proc.at = "menu"
    /\ \E input \in ChoiceInputs :
        /\ input = <<>> \/ Choice(input) < 1 \/ Choice(input) > 8
        /\ proc' = [proc EXCEPT !.said = IF input = <<>> THEN "" ELSE "Invalid option",
                                !.input = input, !.typed = <<>>]
    /\ UNCHANGED genVars

\* case 1: GenerateAdvanced with the current settings
MenuGenerate ==
    /\ proc.at = "menu"
    /\ \E input \in ChoiceInputs :
        /\ input # <<>>
        /\ Choice(input) = 1
        /\ proc' = [proc EXCEPT !.at = "call", !.generated = @ \cup {"interactive"},
                                !.call = AdvancedCall(proc.config), !.said = "",
                                !.input = input, !.typed = <<>>]
    /\ UNCHANGED genVars

\* case 2, 3, 4: the enable flag of the category is negated
MenuToggle ==
    /\ proc.at = "menu"
    /\ \E input \in ChoiceInputs :
        /\ input # <<>>
        /\ Choice(input) \in {2, 3, 4}
        /\ LET field == CASE Choice(input) = 2 -> "useLetters"
                          [] Choice(input) = 3 -> "useNumbers"
                          [] Choice(input) = 4 -> "useSymbols"
           IN  proc' = [proc EXCEPT !.config[field] = ~@, !.said = "",
                                    !.input = input, !.typed = <<>>]
    /\ UNCHANGED genVars

LengthInRangeInclusive(newLen) == newLen >= 0 /\ newLen <= MAX_CATEGORY_LENGTH

\* if (newLen >= 0 && newLen < MAX_CATEGORY_LENGTH)
LengthInRange(newLen) == newLen >= 0 /\ newLen < MAX_CATEGORY_LENGTH

\* case 5, 6, 7: a length is read; it is stored when numeric and in range
MenuSetLength ==
    /\ proc.at = "menu"
    /\ \E input \in ChoiceInputs, typed \in LengthInputs :
        /\ input # <<>>
        /\ Choice(input) \in {5, 6, 7}
        /\ LET field == CASE Choice(input) = 5 -> "letterLength"
                          [] Choice(input) = 6 -> "numberLength"
                          [] Choice(input) = 7 -> "symbolLength"
               newLen == SimpleStrToInt(typed)
               read == [proc EXCEPT !.input = input, !.typed = typed]
           IN  IF typed = <<>>
               THEN proc' = [read EXCEPT !.said = ""]
               ELSE IF ~IsNumericInput(typed)
               THEN proc' = [read EXCEPT !.said = "Please enter a valid number"]
               ELSE IF LengthInRange(newLen)
               THEN proc' = [read EXCEPT !.config[field] = newLen, !.said = ""]
               ELSE proc' = [read EXCEPT !.said = "Length must be between"]
    /\ UNCHANGED genVars

\* case 8: running = FALSE; the loop ends, RunInteractiveMode returns, main returns 0
MenuExit ==
    /\ proc.at = "menu"
    /\ \E input \in ChoiceInputs :
        /\ input # <<>>
        /\ Choice(input) = 8
        /\ proc' = [proc EXCEPT !.at = "exit", !.said = "Goodbye", !.exit = 0,
                                !.input = input, !.typed = <<>>]
    /\ UNCHANGED genVars

NextMain ==
    \/ ShowHelpAndExit
    \/ LegacyBatch
    \/ EnterCli
    \/ EnterInteractive
    \/ ParseArgument
    \/ ParseReturnsTrue
    \/ GenerationReturns
    \/ MenuIgnored
    \/ MenuGenerate
    \/ MenuToggle
    \/ MenuSetLength
    \/ MenuExit

\* one invocation of the program, from the command line to the return of main
SpecMain == MainInit /\ [][NextMain]_vars

\* C19: an invocation runs exactly one mode, the one its argument list selects:
\* help when some argument is --help, -h, /? or -?; else legacy batch when there
\* is exactly one argument and it does not start with '-'; else the advanced CLI
\* when there is an argument; else (no argument, also when the argument list could
\* not be built) the interactive menu.  Generation calls are made only in the
\* mode that runs, GenerateCore only by batch, and after help nothing is
\* generated and main returns 0.
C19_OneModePerInvocation ==
    pc = "main" =>
        LET args == proc.args
            help == \E k \in 1..Len(args) : args[k] \in {StrHelp, StrH, StrSlashQ, StrDashQ}
            single == Len(args) = 1 /\ (args[1] = <<>> \/ Head(args[1]) # "-")
            expected == IF help THEN "help"
                        ELSE IF single THEN "batch"
                        ELSE IF Len(args) >= 1 THEN "cli"
                        ELSE "interactive"
        IN  /\ ~proc.ok => args = <<>>
            /\ proc.at = "start" => (proc.modes = {} /\ proc.generated = {})
            /\ proc.at # "start" => proc.modes = {expected}
            /\ proc.generated \subseteq (proc.modes \ {"help"})
            /\ proc.helpShown = ("help" \in proc.modes)
            /\ proc.helpShown =>
                  (proc.at = "exit" /\ proc.exit = 0 /\ proc.generated = {}
                      /\ proc.call = NoGenCall)
            /\ proc.at = "call" =>
                  /\ proc.call.fn = (IF proc.modes = {"batch"} THEN "GenerateCore"
                                     ELSE "GenerateAdvanced")
                  /\ proc.generated = proc.modes
            /\ proc.at = "parse" => proc.modes = {"cli"}
            /\ proc.at = "menu" => proc.modes = {"interactive"}

\* help asked for by the second argument, the first alone being a batch length
C19_Witness ==
    /\ pc = "main"
    /\ proc.at = "exit"
    /\ proc.helpShown
    /\ Len(proc.args) = 2
    /\ proc.args[1] = Decimal(20)
    /\ proc.args[2] = StrDashQ

\* the numbers typed as values of length flags
TypedValues == {0, 5, 7, 12, 1023, 1024, 2000}

\* argument arg is the long or the short length flag with the decimal text of v
IsLengthFlag(arg, long, short, v) == arg = long \o Decimal(v) \/ arg = short \o Decimal(v)

\* what the first n arguments ask for field: the value of the last length flag
\* among them whose number is in [0, MAX_CATEGORY_LENGTH), the default otherwise
LastInRange(args, n, long, short, default) ==
    LET named == {k \in 1..n : \E v \in TypedValues :
                      v >= 0 /\ v < 1024 /\ IsLengthFlag(args[k], long, short, v)}
        last == CHOOSE k \in named : \A m \in named : m <= k
    IN  IF named = {} THEN default
        ELSE CHOOSE v \in TypedValues : IsLengthFlag(args[last], long, short, v)

\* text begins with the characters of head
BeginsWith(text, head) ==
    Len(text) >= Len(head) /\ SubSeq(text, 1, Len(head)) = head

\* every argument among the first n that begins like the length flag carries a number
AllNumeric(args, n, long, short) ==
    \A k \in 1..n :
        (BeginsWith(args[k], long) \/ BeginsWith(args[k], short)) =>
            \E v \in TypedValues : IsLengthFlag(args[k], long, short, v)

\* C20: in ParseArguments, after the first n arguments have been processed, a
\* category is enabled unless its --no-X flag is among them, and a category's
\* length is the number of the last --X=N / -x=N among them with N in [0, 1024),
\* or its default (letters 8, numbers 4, symbols 4) when there is none (N being a
\* number); so a flag changes only the field it names and an unnamed field keeps
\* its default.
C20_ParseFrame ==
    (pc = "main" /\ "cli" \in proc.modes) =>
        LET args == proc.args
            n == proc.i - 1
            config == proc.config
        IN  /\ n \in 0..Len(args)
            /\ config.useLetters = ~(\E k \in 1..n : args[k] = StrNoLetters)
            /\ config.useNumbers = ~(\E k \in 1..n : args[k] = StrNoNumbers)
            /\ config.useSymbols = ~(\E k \in 1..n : args[k] = StrNoSymbols)
            /\ AllNumeric(args, n, StrLetters, StrL) =>
                  config.letterLength = LastInRange(args, n, StrLetters, StrL, 8)
            /\ AllNumeric(args, n, StrNumbers, StrN) =>
                  config.numberLength = LastInRange(args, n, StrNumbers, StrN, 4)
            /\ AllNumeric(args, n, StrSymbols, StrS) =>
                  config.symbolLength = LastInRange(args, n, StrSymbols, StrS, 4)
            /\ proc.at = "call" => (n = Len(args) /\ proc.call = AdvancedCall(config))

\* -l=1023 then --letters=1024: the second value is out of range and the first stays
C20_Witness ==
    /\ pc = "main"
    /\ proc.at = "call"
    /\ Len(proc.args) = 2
    /\ proc.args[1] = StrL \o Decimal(1023)
    /\ proc.args[2] = StrLetters \o Decimal(1024)
    /\ proc.call.fn = "GenerateAdvanced"
    /\ proc.call.config.letterLength = 1023
    /\ proc.call.config.numberLength = 4

\* argument arg starts with '-'
StartsWithDash(arg) == arg # <<>> /\ Head(arg) = "-"

\* argument arg is one of the flags ParseArguments knows
Recognised(arg) ==
    \/ arg \in {StrNoLetters, StrNoNumbers, StrNoSymbols}
    \/ \E head \in {StrLetters, StrL, StrNumbers, StrN, StrSymbols, StrS} : BeginsWith(arg, head)

\* the positions of the arguments that start with '-' and are not recognised
UnrecognisedFlags(args) ==
    {k \in 1..Len(args) : StartsWithDash(args[k]) /\ ~Recognised(args[k])}

\* C21: in the advanced CLI, when some argument starts with '-' and is not a
\* recognised flag, ParseArguments returns FALSE at the first such argument, main
\* returns 1 and GenerateAdvanced is not called; ParseArguments returns TRUE (main
\* then calls GenerateAdvanced) only when no argument is of that kind; arguments
\* that are not recognised and do not start with '-' are passed over.
C21_UnknownFlagStopsParsing ==
    (pc = "main" /\ "cli" \in proc.modes) =>
        LET bad == UnrecognisedFlags(proc.args)
        IN  /\ proc.at = "parse" => \A k \in 1..(proc.i - 1) : k \notin bad
            /\ bad # {} =>
                  /\ proc.at \in {"parse", "exit"}
                  /\ proc.generated = {}
                  /\ proc.call = NoGenCall
                  /\ proc.at = "exit" =>
                        (proc.exit = 1 /\ proc.i = Min(bad) /\ proc.said = "Unknown flag")
            /\ proc.at = "call" => (bad = {} /\ proc.call.fn = "GenerateAdvanced")
            /\ (proc.at = "exit" /\ proc.exit = 0) => (bad = {} /\ proc.generated = {"cli"})

\* "abc" passed over, then --foo stops the parsing; a flag after it is not looked at
C21_Witness ==
    /\ pc = "main"
    /\ proc.at = "exit"
    /\ proc.exit = 1
    /\ proc.args = << <<"a", "b", "c">>, <<"-", "-", "f", "o", "o">> >>
    /\ proc.i = 2
    /\ proc.generated = {}

\* argument arg is a length flag whose text after the '=' is not a number
NonNumericValue(arg) ==
    \E head \in {StrLetters, StrL, StrNumbers, StrN, StrSymbols, StrS} :
        /\ BeginsWith(arg, head)
        /\ ~IsNumericInput(SubSeq(arg, Len(head) + 1, Len(arg)))

\* C22: ParseArguments does not go past a length flag whose value is not a number
\* (--letters=abc, --numbers= with no value): it reports the invalid value,
\* returns FALSE at that argument, so that main returns 1 without a generation
\* call, and the configuration is as it was before that argument.
C22_NonNumericValueRejected ==
    (pc = "main" /\ "cli" \in proc.modes) =>
        /\ \A k \in 1..(proc.i - 1) : ~NonNumericValue(proc.args[k])
        /\ (proc.at = "exit" /\ proc.i \in 1..Len(proc.args)
                /\ NonNumericValue(proc.args[proc.i])) =>
              (proc.exit = 1 /\ proc.generated = {})
        /\ proc.at = "call" => \A k \in 1..Len(proc.args) : ~NonNumericValue(proc.args[k])

(***************************************************************************)
(* SimpleStrToInt / SimpleWStrToInt on their own: one string, the while     *)
(* loop run one pass per step                                               *)
(***************************************************************************)
\* longest string parsed
MaxStrLen == 6

\* largest value of a 32-bit signed int
INT_MAX == 2147483647

\* the characters the parsed strings are made of: digits and one that is none
ParseChars == {"0", "1", "9", "x"}

\* the strings handed to the parsers
ParseStrings == UNION {[1..n -> ParseChars] : n \in 0..MaxStrLen}

ParseInit ==
    /\ pc = "strtoint"
    /\ NoCall
    /\ proc = NoProc
    /\ \E str \in ParseStrings :
          probe = [str |-> str, rest |-> str, res |-> 0, peak |-> 0, done |-> FALSE, ret |-> 0]

\* one evaluation of the loop condition and, when it holds, one pass of the body
StrToIntStep ==
    /\ pc = "strtoint"
    /\ ~probe.done
    /\ IF probe.rest = <<>> \/ ~IsDigit(Head(probe.rest))
       THEN probe' = [probe EXCEPT !.done = TRUE, !.ret = probe.res]
       ELSE IF probe.res > MAX_INT_PARSE_VALUE \div 10
       THEN probe' = [probe EXCEPT !.done = TRUE, !.ret = MAX_INT_PARSE_VALUE]
       ELSE LET next == (probe.res * 10) + DigitValue(Head(probe.rest))
                peak == IF next > probe.peak THEN next ELSE probe.peak
            IN  IF ExceedsCap(next)
                THEN probe' = [probe EXCEPT !.res = next, !.peak = peak, !.done = TRUE,
                                            !.ret = MAX_INT_PARSE_VALUE]
                ELSE probe' = [probe EXCEPT !.res = next, !.peak = peak,
                                            !.rest = Tail(probe.rest)]
    /\ UNCHANGED <<pc, callVars, proc>>

NextParse == StrToIntStep

SpecParse == ParseInit /\ [][NextParse]_vars

\* every character of str is one of 0 .. 9
AllDigits(str) == \A k \in 1..Len(str) : str[k] \in {"0", "1", "2", "3", "4", "5", "6", "7", "8", "9"}

RECURSIVE LeadingValue(_, _)
\* the decimal value of the leading run of digits of str, acc being the value so far
LeadingValue(str, acc) ==
    IF str = <<>> \/ Head(str) \notin {"0", "1", "2", "3", "4", "5", "6", "7", "8", "9"}
    THEN acc
    ELSE LeadingValue(Tail(str),
                      10 * acc + (CHOOSE d \in 0..9 : Decimal(d) = <<Head(str)>>))

\* C23: SimpleStrToInt and SimpleWStrToInt return the smaller of 100000 and the
\* decimal value of the leading run of digits (0 when the string does not start
\* with a digit), however long the run; the accumulator stays within a 32-bit
\* signed int at every pass and the result is in 0..100000.
C23_ParseIsCappedValue ==
    pc = "strtoint" =>
        LET v == LeadingValue(probe.str, 0)
            capped == IF v < 100000 THEN v ELSE 100000
        IN  /\ MAX_INT_PARSE_VALUE = 100000
            /\ probe.res \in 0..INT_MAX
            /\ probe.peak \in 0..INT_MAX
            /\ probe.res <= probe.peak
            /\ probe.done => (probe.ret = capped /\ probe.ret \in 0..100000)
            /\ SimpleStrToInt(probe.str) = capped
            /\ SimpleWStrToInt(probe.str) = capped

\* a run of six digits whose value is above 100000, parsed to the end
C23_Witness ==
    /\ pc = "strtoint"
    /\ probe.done
    /\ probe.str = <<"1", "0", "0", "0", "0", "1">>
    /\ probe.ret = 100000
    /\ probe.peak > 100000

\* C24: from the end of the assembly to the release of the buffer, whatever
\* values are drawn, the password buffer holds the characters assembled, each as
\* often as assembled, and its terminator; the k-th swap has its target j in
\* 0..i with i = length - k < length; after k swaps the positions above
\* i = length - 1 - k and the terminator hold what they hold in every later state
\* of the call; the index goes down by one per swap from length - 1, and a shuffle
\* without draw failure ends after exactly length - 1 swaps (the loop body is not
\* entered for a length of 0 or 1).
C24_ShuffleIsInPlacePermutation ==
    (mode = "advanced" /\ assembled # <<>> /\ "passwordString" \in heap) =>
        LET n == totalLength
            After(k) == ShuffleFrom(assembled, n - 1, SubSeq(targets, 1, k))
        IN  /\ ShuffleEntry(0) = "output"
            /\ ShuffleEntry(1) = "output"
            /\ ShuffleEntry(2) = "shuffle"
            /\ Len(passwordString) = n + 1
            /\ passwordString[n + 1] = NUL
            /\ \A k \in 1..n :
                  CountIn(passwordString, {assembled[k]}) = CountIn(assembled, {assembled[k]})
            /\ Len(targets) = nWide
            /\ \A k \in 1..Len(targets) :
                  (targets[k] >= 0 /\ targets[k] <= n - k /\ n - k < n)
            /\ pc = "shuffle" => (i = n - 1 - nWide /\ i >= 1 /\ i < n)
            /\ passwordString = After(Len(targets))
            /\ \A k \in 0..Len(targets) :
                  \A p \in (n - k + 1)..(n + 1) : passwordString[p] = After(k)[p]
            /\ (pc = "output" /\ ~wideFailed) => (nWide = n - 1 /\ i = 0)

\* a complete shuffle in which a character was swapped with itself and another
\* one moved to the front
C24_Witness ==
    /\ mode = "advanced"
    /\ pc = "output"
    /\ ~wideFailed
    /\ nWide = totalLength - 1
    /\ targets[1] = totalLength - 1
    /\ targets[2] = 0
    /\ passwordString # assembled

(***************************************************************************)
(* ShufflePassword called on its own: a buffer of length characters and     *)
(* its terminator, a context that is held                                   *)
(***************************************************************************)
\* the buffers handed to ShufflePassword: n characters (all different, or all
\* after the first the same) and the terminator
ShuffleBuffers(n) ==
    {[k \in 1..(n + 1) |-> IF k > n THEN NUL ELSE IF k = 1 THEN 1 ELSE step * (k - 1) + 2]
        : step \in {0, 1}}

ShuffleInit ==
    /\ \E n \in 0..MaxTotal :
          /\ totalLength = n
          /\ i = n - 1
          /\ pc = ShuffleEntry(n)
          /\ \E password \in ShuffleBuffers(n) :
                /\ passwordString = password
                /\ assembled = password
    /\ mode = "none"
    /\ letterCount = 0
    /\ numberCount = 0
    /\ symbolCount = 0
    /\ useLetters = FALSE
    /\ useNumbers = FALSE
    /\ useSymbols = FALSE
    /\ length = 0
    /\ heap = {"passwordString"}
    /\ pbBuffer = <<>>
    /\ hCryptProv = 1
    /\ errors = <<>>
    /\ results = <<>>
    /\ clipboard = <<>>
    /\ nAlloc = 0
    /\ nFree = 0
    /\ nAcquire = 0
    /\ nRelease = 0
    /\ nFill = 0
    /\ nWide = 0
    /\ lastDraw = "none"
    /\ fillFailed = FALSE
    /\ wideFailed = FALSE
    /\ oob = FALSE
    /\ targets = <<>>
    /\ readIdx = <<>>
    /\ pos = 0
    /\ probe = NoProbe
    /\ proc = NoProc

NextShuffle ==
    \/ ShuffleDrawFails
    \/ ShuffleDrawRejected
    \/ ShuffleDrawAccepted

\* the random source does not return rejected values for ever: a value that is
\* accepted, possible at every pass of the do-while loop, is eventually drawn
\* unless the loop is left before
SpecShuffleFair == ShuffleInit /\ [][NextShuffle]_vars /\ WF_vars(ShuffleDrawAccepted)

\* C25: when the source does not return rejected values for ever, the rejection
\* loop of every index is left (by an accepted value, after which the index is
\* lower, or by a failed draw, after which ShufflePassword has returned) and
\* ShufflePassword returns; the loop itself bounds nothing: at every pass, also
\* after a rejected value, one more rejected value is possible that leaves the
\* index and the buffer as they are.
C25_ShuffleTerminates ==
    /\ \A idx \in 1..MaxTotal :
          (pc = "shuffle" /\ i = idx) ~> (pc = "output" \/ (pc = "shuffle" /\ i < idx))
    /\ <>(pc = "output")
    /\ [](pc = "shuffle" =>
            ENABLED (ShuffleDrawRejected /\ pc' = "shuffle" /\ lastDraw' = "rejected"))

\* a value rejected at an index below the first one
C25_Witness ==
    /\ mode = "none"
    /\ pc = "shuffle"
    /\ lastDraw = "rejected"
    /\ nWide >= 1
    /\ i = 1

\* the password length a generation call of main asks for
CallLength(call) ==
    IF call.fn = "GenerateCore" THEN call.length
    ELSE TotalLength(call.config.letterLength, call.config.numberLength,
                     call.config.symbolLength, call.config.useLetters,
                     call.config.useNumbers, call.config.useSymbols)

\* C26: every generation call main makes (legacy batch, advanced CLI, interactive
\* menu) asks for a password of at most MAX_PASSWORD_LENGTH (1024) characters.
C26_LengthWithinMaximum ==
    (pc = "main" /\ proc.at = "call") => CallLength(proc.call) <= MAX_PASSWORD_LENGTH

\* each category length of the configuration is in [0, MAX_CATEGORY_LENGTH)
LengthsInRange(config) ==
    /\ config.letterLength \in 0..(MAX_CATEGORY_LENGTH - 1)
    /\ config.numberLength \in 0..(MAX_CATEGORY_LENGTH - 1)
    /\ config.symbolLength \in 0..(MAX_CATEGORY_LENGTH - 1)

\* the line typed at a length prompt is not a number, or is a number >= 1024
BadLength(typed) ==
    typed # <<>> /\ (~AllDigits(typed) \/ LeadingValue(typed, 0) >= 1024)

\* C27: the configuration of ParseArguments and of the menu always has its three
\* lengths in [0, 1024), and so has every configuration handed to
\* GenerateAdvanced; a length flag with a number >= 1024 leaves the configuration
\* as it is, writes no error and lets the parsing go on; a line typed at a length
\* prompt of the menu that is not a number or is >= 1024 leaves the settings as
\* they are and an error is written.
C27_CategoryLengthsInRange ==
    /\ []((pc = "main" /\ proc.at \in {"parse", "menu", "call"}) =>
            /\ 1024 = MAX_CATEGORY_LENGTH
            /\ LengthsInRange(proc.config)
            /\ proc.call.fn = "GenerateAdvanced" => LengthsInRange(proc.call.config))
    /\ [][(pc = "main" /\ proc.at = "parse" /\ proc.i \in 1..Len(proc.args)
              /\ \E v \in TypedValues :
                    /\ v >= 1024
                    /\ \/ IsLengthFlag(proc.args[proc.i], StrLetters, StrL, v)
                       \/ IsLengthFlag(proc.args[proc.i], StrNumbers, StrN, v)
                       \/ IsLengthFlag(proc.args[proc.i], StrSymbols, StrS, v)) =>
              /\ proc'.config = proc.config
              /\ proc'.at = "parse"
              /\ proc'.i = proc.i + 1
              /\ proc'.said = proc.said]_vars
    /\ [][(pc = "main" /\ proc.at = "menu" /\ proc'.input # <<>>
              /\ LeadingValue(proc'.input, 0) \in {5, 6, 7} /\ BadLength(proc'.typed)) =>
              /\ proc'.config = proc.config
              /\ proc'.at = "menu"
              /\ proc'.said \in {"Please enter a valid number", "Length must be between"}]_vars

\* 1024 typed at the prompt for the number length: refused, the setting stays
C27_Witness ==
    /\ pc = "main"
    /\ proc.at = "menu"
    /\ proc.input = Decimal(6)
    /\ proc.typed = Decimal(1024)
    /\ proc.said = "Length must be between"
    /\ proc.config.numberLength = 4
    /\ proc.config.letterLength = 3

\* C28: one pass of the menu loop changes at most the setting its choice names:
\* 2, 3, 4 negate their own enable flag and nothing else (the three lengths stay,
\* also that of a category switched off); 5, 6, 7 change at most their own
\* length; 1, a choice outside 1..8, a line that is not a number and an empty
\* line change no setting; the loop ends on choice 8 and on nothing else.
C28_MenuFrame ==
    [][(pc = "main" /\ proc.at = "menu") =>
          LET input == proc'.input
              number == input # <<>> /\ AllDigits(input)
              choice == LeadingValue(input, 0)
              old == proc.config
              new == proc'.config
          IN  /\ (~number \/ choice < 1 \/ choice > 8 \/ choice = 1) => new = old
              /\ (number /\ choice = 2) => new = [old EXCEPT !.useLetters = ~old.useLetters]
              /\ (number /\ choice = 3) => new = [old EXCEPT !.useNumbers = ~old.useNumbers]
              /\ (number /\ choice = 4) => new = [old EXCEPT !.useSymbols = ~old.useSymbols]
              /\ (number /\ choice = 5) => new = [old EXCEPT !.letterLength = new.letterLength]
              /\ (number /\ choice = 6) => new = [old EXCEPT !.numberLength = new.numberLength]
              /\ (number /\ choice = 7) => new = [old EXCEPT !.symbolLength = new.symbolLength]
              /\ (proc'.at = "exit") = (number /\ choice = 8)
              /\ (proc'.at = "call") = (number /\ choice = 1)
      ]_vars

(***************************************************************************)
(* Two generation calls one after the other.  proc keeps what an observer   *)
(* of the first call noted: the request, what the random source returned    *)
(* and what the call wrote.                                                 *)
(***************************************************************************)
\* the GenerateAdvanced requests of the two calls: a valid one (a disabled category
\* with a count) and one that is too short
AdvancedRequests == {<<2, 2, 1, TRUE, TRUE, FALSE>>, <<1, 1, 1, TRUE, TRUE, TRUE>>}

\* the GenerateCore requests of the two calls
CoreRequests == {<<MIN_PASSWORD_LENGTH, TRUE>>}

\* what is noted of a call that has returned, bytes being its random bytes
Snapshot(bytes) ==
    [request |-> <<mode, letterCount, numberCount, symbolCount, useLetters, useNumbers,
                   useSymbols, length>>,
     source |-> [asked |-> (nAlloc = 2), acquired |-> nAcquire, filled |-> nFill,
                 bytes |-> bytes, targets |-> targets, wideFailed |-> wideFailed],
     outcome |-> [results |-> results, errors |-> errors],
     clipboard |-> clipboard]

RepeatInit ==
    /\ pc = "idle"
    /\ NoCall
    /\ probe = NoProbe
    /\ proc = [at |-> "repeat", calls |-> 0, noted |-> FALSE, bytes |-> <<>>, first |-> <<>>]

\* the caller calls GenerateAdvanced or GenerateCore
RepeatCall ==
    \/ \E r \in AdvancedRequests : CallGenerateAdvanced(r[1], r[2], r[3], r[4], r[5], r[6])
    \/ \E r \in CoreRequests : CallGenerateCore(r[1], r[2])

\* the observer notes the random bytes before the buffers are freed
NoteBytes ==
    /\ pc = "free"
    /\ ~proc.noted
    /\ proc' = [proc EXCEPT !.noted = TRUE, !.bytes = pbBuffer]
    /\ UNCHANGED <<pc, callVars, probe>>

\* HeapFree of both buffers, once the bytes are noted
FreeBuffersNoted ==
    /\ proc.noted
    /\ FreeBuffers

\* the first call returns: the observer notes it and the caller may call again
FirstCallReturns ==
    /\ proc.calls = 0
    /\ FramePopped
    /\ proc' = [proc EXCEPT !.calls = 1, !.noted = FALSE, !.bytes = <<>>,
                            !.first = <<Snapshot(proc.bytes)>>]
    /\ UNCHANGED probe

NextRepeat ==
    \/ RepeatCall
    \/ BodyStep
    \/ NoteBytes
    \/ FreeBuffersNoted
    \/ FirstCallReturns

\* a first call, then a second one, each with any request and any behaviour of
\* the system
SpecRepeat == RepeatInit /\ [][NextRepeat]_vars

\* the second call has returned having made the same request and received the same
\* results from the random source as the first
SameAsFirst ==
    /\ proc.at = "repeat"
    /\ proc.calls = 1
    /\ pc = "returned"
    /\ Snapshot(proc.bytes).request = proc.first[1].request
    /\ Snapshot(proc.bytes).source = proc.first[1].source

CallBuffers == {"pbBuffer", "passwordString"}

\* the call has returned from one of its validation checks
ValidationFailed ==
    /\ pc = "returned"
    /\ errors # <<>>
    /\ errors[1].err \in {"NoCategoryEnabled", "TooShort"}

\* C30: in GenerateCore and GenerateAdvanced every HeapFree releases a buffer that
\* is allocated at that moment (the frees done plus the buffers still held are the
\* allocations done, so no buffer is freed twice); both buffers stay allocated
\* from the second allocation up to the frees; a call that allocated both has
\* freed both when it returns, on success and after an acquire, fill or shuffle
\* failure; a call whose second allocation failed has freed the first buffer,
\* never acquired the random source and reported the memory error; a call that
\* failed validation allocated and freed nothing; no buffer is allocated when the
\* call returns.
C30_BuffersFreedOnce ==
    (proc.at = "none" /\ mode \in {"core", "advanced"}) =>
        /\ heap \subseteq CallBuffers
        /\ nAlloc = nFree + Cardinality(heap)
        /\ nAlloc <= 2
        /\ pc \in {"acquire", "fill", "map", "assemble", "shuffle", "output", "release", "free"} =>
              (heap = CallBuffers /\ nAlloc = 2 /\ nFree = 0)
        /\ pc = "returned" =>
              /\ heap = {}
              /\ pbBuffer = <<>>
              /\ passwordString = <<>>
              /\ nFree = nAlloc
              /\ (fillFailed \/ wideFailed \/ results # <<>> \/ nAcquire > 0) =>
                    (nAlloc = 2 /\ nFree = 2)
              /\ (errors # <<>> /\ errors[Len(errors)].err = "Crypto Context Failed") =>
                    (nAlloc = 2 /\ nFree = 2)
              /\ nAlloc = 1 =>
                    /\ nFree = 1
                    /\ nAcquire = 0
                    /\ hCryptProv = 0
                    /\ nFill = 0
                    /\ results = <<>>
                    /\ errors = <<[err |-> "Memory Error", arg |-> 0]>>
              /\ ValidationFailed => (nAlloc = 0 /\ nFree = 0)

\* a call has returned after its second allocation failed: the first buffer was
\* allocated and freed, the random source was not acquired
C30_Witness ==
    /\ proc.at = "none"
    /\ mode = "advanced"
    /\ pc = "returned"
    /\ nAlloc = 1
    /\ nFree = 1
    /\ heap = {}
    /\ nAcquire = 0
    /\ errors = <<[err |-> "Memory Error", arg |-> 0]>>

=============================================================================
